---- MODULE Spec2Model ----
(***************************************************************************)
(* The owner's dashboard (src/src/app/(app)/dashboard/page.tsx) together   *)
(* with the inbox service it talks to.  The dashboard is modelled from its *)
(* source; the inbox service (store, acceptance toggle, submit, list,      *)
(* delete) and the message card that starts a delete are not among the     *)
(* sources and are modelled from spec.md sections 3 to 7.                  *)
(*                                                                         *)
(* Every await of the dashboard is a request in flight: the handler's code *)
(* up to the await is one action, the service's handling of the request is *)
(* a second one, and the handler's continuation (then / catch / finally)   *)
(* is a third.  Responses can arrive in any order.                         *)
(***************************************************************************)
EXTENDS Integers, Sequences, FiniteSets, Bags

\* ------------------------------------------------------------- bounds
MaxMsgs == 2        \* message ids the store ever generates
MaxInflight == 2    \* dashboard requests in flight at once
MaxSubmits == 1     \* anonymous submissions in progress at once

\* ---------------------------------------------------------- constants
Owner == "A"                       \* the session user of the dashboard
Users == {"A", "B"}
Purposes == {"feedback", "suggestion", "appreciation"}
FilterOptions == {"all"} \cup Purposes
\* What the anonymous submitters of the model send.
SubmitTargets == Users
SubmitPurposes == Purposes
Ids == 1..MaxMsgs
SubmitSlots == 1..MaxSubmits

VARIABLES
  \* inbox service
  store,              \* the Message Store, newest first
  acceptingMessages,  \* User.acceptingMessages, per user
  nextId,             \* the id generator
  subs,               \* submissions between their read of the flag and their return
  \* dashboard
  session, messages, filteredMessages, filter, acceptMessages,
  isLoading, isSwitchLoading,
  effectDue,          \* the mount effect is scheduled: on mount and when its session changes
  net,                \* the dashboard's requests in flight, a bag
  \* observations: written, never read by the program
  watch,              \* which observations this behaviour records
  toast,              \* the toast showing
  submitResult,       \* what the last submit returned
  peerResult,         \* how the other user's last delete ended
  dirty,              \* a request failed or the inbox grew since the dashboard began to fetch
  deletedLocal        \* ids handleDeleteMessage has been invoked for

server == <<store, acceptingMessages, nextId, subs>>
lists == <<messages, filteredMessages, filter>>
flags == <<isLoading, isSwitchLoading>>
auth == <<session, effectDue>>
client == <<session, effectDue, messages, filteredMessages, filter,
            acceptMessages, isLoading, isSwitchLoading>>
seen == <<watch, toast, submitResult, peerResult, dirty, deletedLocal>>
vars == <<store, acceptingMessages, nextId, subs, session, effectDue, messages,
          filteredMessages, filter, acceptMessages, isLoading, isSwitchLoading,
          net, watch, toast, submitResult, peerResult, dirty, deletedLocal>>

\* ------------------------------------------------------------ helpers
IdsOf(seq) == {seq[i]._id : i \in 1..Len(seq)}

\* messages.filter((message) => message._id !== messageId): Array.prototype.filter,
\* element by element, keeping the order.
RECURSIVE FilterNotId(_, _)
FilterNotId(seq, messageId) ==
  IF seq = <<>> THEN <<>>
  ELSE IF Head(seq)._id # messageId
       THEN <<Head(seq)>> \o FilterNotId(Tail(seq), messageId)
       ELSE FilterNotId(Tail(seq), messageId)

\* messages.filter((message) => message.purpose === selectedFilter)
RECURSIVE FilterPurpose(_, _)
FilterPurpose(seq, selectedFilter) ==
  IF seq = <<>> THEN <<>>
  ELSE IF Head(seq).purpose = selectedFilter
       THEN <<Head(seq)>> \o FilterPurpose(Tail(seq), selectedFilter)
       ELSE FilterPurpose(Tail(seq), selectedFilter)

\* JavaScript's ! on the watched form value (undefined before the first setValue).
Negate(v) == v # "true"

FormValue(b) == IF b THEN "true" ELSE "false"

Idle ==
  [kind |-> "idle", stage |-> "idle", id |-> 0, val |-> FALSE, refresh |-> FALSE,
   body |-> <<>>, snap |-> <<>>, applied |-> FALSE, err |-> "none",
   delBefore |-> {}, goneBefore |-> {}]

InFlight == BagToSet(net)

Room(n) == BagCardinality(net) + n <= MaxInflight

\* The bag of requests with one more, one fewer, one replaced.
Sent(req) == net (+) SetToBag({req})

Settled(req) == net (-) SetToBag({req})

Answered(req, resp) == (net (-) SetToBag({req})) (+) SetToBag({resp})

\* Ids the store has generated and holds no more.
GoneIds == {i \in Ids : i < nextId /\ i \notin IdsOf(store)}

\* An observation is recorded in the behaviours that watch it.
Record(what, new, old) == IF what \in watch THEN new ELSE old

IdleSub == [stage |-> "idle", target |-> Owner, read |-> FALSE]

\* --------------------------------------------------------------- Init
\* The state after construction: an empty store, every user accepting, the
\* dashboard mounted with its useState defaults and no session yet.
Constructed ==
  /\ store = <<>>
  /\ acceptingMessages = [u \in Users |-> TRUE]
  /\ nextId = 1
  /\ subs = [k \in SubmitSlots |-> IdleSub]
  /\ session = "none"
  /\ effectDue = TRUE
  /\ messages = <<>>
  /\ filteredMessages = <<>>
  /\ filter = "all"
  /\ acceptMessages = "undefined"
  /\ isLoading = FALSE
  /\ isSwitchLoading = FALSE
  /\ net = EmptyBag
  /\ toast = "none"
  /\ submitResult = "none"
  /\ peerResult = "none"
  /\ dirty = FALSE
  /\ deletedLocal = {}

\* Nothing is observed.
Init == Constructed /\ watch = {}

\* The scenarios start from the same state and differ in what they observe.
InitLists == Constructed /\ watch = {"dirty", "deleted"}
InitSwitch == Constructed /\ watch = {"toast", "submit"}
InitStore == Constructed /\ watch = {"peer"}

\* ------------------------------------------- inbox service (spec.md 4)
OwnedBy(ownerId, msg) == msg.owner = ownerId

\* list(ownerId): all messages owned by ownerId, newest first (4.3).
List(ownerId) == SelectSeq(store, LAMBDA msg : OwnedBy(ownerId, msg))

\* Submissions that have read acceptingMessages = true and will append.
Appending == {k \in SubmitSlots : subs[k].stage = "read" /\ subs[k].read}

\* submit, first half: resolve the user and read acceptingMessages (4.2).
\* The id generator is capped at MaxMsgs.
SubmitRead(k, target) ==
  /\ subs[k].stage = "idle"
  /\ acceptingMessages[target] => nextId + Cardinality(Appending) <= MaxMsgs
  /\ subs' = [subs EXCEPT ![k] = [stage |-> "read", target |-> target,
                                  read |-> acceptingMessages[target]]]
  /\ UNCHANGED <<store, acceptingMessages, nextId, client, net, seen>>

\* A submit that looks at the flag again when it appends, instead of
\* acting on the value it read.
SubmitAcceptsRereads(k) == acceptingMessages[subs[k].target]

\* What the second half of submit decides on: the value it read.
SubmitAccepts(k) == subs[k].read

\* submit, second half: append when the flag read was true, else return
\* accepted:false without creating a record (4.2).  The purpose supplied with
\* the submission is first used here.
SubmitFinish(k, purpose) ==
  /\ subs[k].stage = "read"
  /\ IF SubmitAccepts(k)
     THEN /\ nextId <= MaxMsgs
          /\ store' = <<[_id |-> nextId, owner |-> subs[k].target,
                         purpose |-> purpose]>> \o store
          /\ nextId' = nextId + 1
          /\ submitResult' = Record("submit", "accepted", submitResult)
          /\ dirty' = Record("dirty", dirty \/ subs[k].target = Owner, dirty)
     ELSE /\ submitResult' = Record("submit", "rejected", submitResult)
          /\ UNCHANGED <<store, nextId, dirty>>
  /\ subs' = [subs EXCEPT ![k] = IdleSub]
  /\ UNCHANGED <<acceptingMessages, client, net, watch, toast, peerResult,
                 deletedLocal>>

\* list messages, served for the session user.
ListServe(req) ==
  /\ req.kind = "list" /\ req.stage = "sent"
  /\ net' = Answered(req, [req EXCEPT !.stage = "ok", !.body = List(Owner)])
  /\ UNCHANGED <<server, client, seen>>

\* getAcceptance(ownerId) (4.1).
GetAcceptanceServe(req) ==
  /\ req.kind = "getAccept" /\ req.stage = "sent"
  /\ net' = Answered(req, [req EXCEPT !.stage = "ok",
                                      !.val = acceptingMessages[Owner]])
  /\ UNCHANGED <<server, client, seen>>

\* setAcceptance(ownerId, value): the side effect is purely the stored flag (4.1).
SetAcceptanceServe(req) ==
  /\ req.kind = "setAccept" /\ req.stage = "sent"
  /\ acceptingMessages' = [acceptingMessages EXCEPT ![Owner] = req.val]
  /\ net' = Answered(req, [req EXCEPT !.stage = "ok"])
  /\ UNCHANGED <<store, nextId, subs, client, seen>>

\* A delete that treats a missing message as already done.
DeleteOutcomeIdempotent(caller, messageId) ==
  IF messageId \notin IdsOf(store) THEN "ok"
  ELSE IF \E i \in 1..Len(store) :
            store[i]._id = messageId /\ ~OwnedBy(caller, store[i])
       THEN "Forbidden"
       ELSE "ok"

\* A delete that does not look at who owns the message.
DeleteOutcomeAnyCaller(caller, messageId) ==
  IF messageId \notin IdsOf(store) THEN "NotFound" ELSE "ok"

\* delete(ownerId, messageId): how the call ends (4.4).
DeleteOutcome(caller, messageId) ==
  IF messageId \notin IdsOf(store) THEN "NotFound"
  ELSE IF \E i \in 1..Len(store) :
            store[i]._id = messageId /\ ~OwnedBy(caller, store[i])
       THEN "Forbidden"
       ELSE "ok"

\* The store once the message is permanently removed.
Removed(messageId) == SelectSeq(store, LAMBDA msg : msg._id # messageId)

\* delete, called by the session user from the dashboard.
DeleteServe(req) ==
  /\ req.kind = "delete" /\ req.stage = "sent"
  /\ LET out == DeleteOutcome(Owner, req.id) IN
       IF out = "ok"
       THEN /\ store' = Removed(req.id)
            /\ net' = Answered(req, [req EXCEPT !.stage = "ok"])
            /\ UNCHANGED dirty
       ELSE /\ net' = Answered(req, [req EXCEPT !.stage = "fail", !.err = out])
            /\ dirty' = Record("dirty", TRUE, dirty)
            /\ UNCHANGED store
  /\ UNCHANGED <<acceptingMessages, nextId, subs, client, watch, toast,
                 submitResult, peerResult, deletedLocal>>

\* StoreUnavailable: the persistence fails, nothing is applied (7).
StoreUnavailable(req) ==
  /\ req.stage = "sent"
  /\ net' = Answered(req, [req EXCEPT !.stage = "fail", !.err = "StoreUnavailable"])
  /\ dirty' = Record("dirty", TRUE, dirty)
  /\ UNCHANGED <<server, client, watch, toast, submitResult, peerResult,
                 deletedLocal>>

\* delete, called by the other authenticated user for some message id.
PeerDelete(messageId) ==
  /\ peerResult' = Record("peer", DeleteOutcome("B", messageId), peerResult)
  /\ store' = IF DeleteOutcome("B", messageId) = "ok" THEN Removed(messageId)
              ELSE store
  /\ UNCHANGED <<acceptingMessages, nextId, subs, client, net, watch, toast,
                 submitResult, dirty, deletedLocal>>

\* ------------------------------------------------ dashboard (page.tsx)
\* toast({title, description, variant}): the variant of the toast showing.
Toast(variant) == Record("toast", variant, toast)

\* axios.get("/api/get-messages") as issued by fetchMessages(refresh).  With
\* it travel the ids handleDeleteMessage had removed and the ids the store
\* had deleted when it was issued.
ListRequest(refresh) ==
  [Idle EXCEPT !.kind = "list", !.stage = "sent", !.refresh = refresh,
               !.delBefore = deletedLocal,
               !.goneBefore = Record("deleted", GoneIds, {})]

\* axios.get("/api/accept-messages") as issued by fetchAcceptMessages.
GetAcceptRequest == [Idle EXCEPT !.kind = "getAccept", !.stage = "sent"]

\* What the dashboard renders with a session user, once the effect of that
\* render has run: without one it returns the loader before the switch, the
\* Refresh button, the filter and the cards.
Rendered == session = Owner /\ ~effectDue

\* const { data: session } = useSession(): the session arrives, or it ends
\* (user = "none").  The component renders again and the effect, which
\* depends on session, is scheduled.
useSession(user) ==
  /\ user # session
  /\ ~effectDue
  /\ session' = user
  /\ effectDue' = TRUE
  /\ UNCHANGED <<server, lists, acceptMessages, flags, net, seen>>

\* A mount effect without its early return.
useEffectUnguarded ==
  /\ effectDue
  /\ effectDue' = FALSE
  /\ Room(2)
  /\ net' = net (+) SetToBag({ListRequest(FALSE)}) (+) SetToBag({GetAcceptRequest})
  /\ isLoading' = TRUE
  /\ isSwitchLoading' = TRUE
  /\ dirty' = FALSE
  /\ UNCHANGED <<server, session, lists, acceptMessages, watch, toast,
                 submitResult, peerResult, deletedLocal>>

\* The mount effect: it returns when there is no session user, else it calls
\* fetchMessages() and then fetchAcceptMessages(), each up to its await.
useEffect ==
  /\ effectDue
  /\ effectDue' = FALSE
  /\ IF session = "none"
     THEN UNCHANGED <<net, isLoading, isSwitchLoading, dirty>>
     ELSE /\ Room(2)
          /\ net' = net (+) SetToBag({ListRequest(FALSE)}) (+) SetToBag({GetAcceptRequest})
          /\ isLoading' = TRUE
          /\ isSwitchLoading' = TRUE
          /\ dirty' = FALSE
  /\ UNCHANGED <<server, session, lists, acceptMessages, watch, toast,
                 submitResult, peerResult, deletedLocal>>

\* The Refresh button: fetchMessages(true) up to its await.
fetchMessages ==
  /\ Rendered
  /\ Room(1)
  /\ net' = Sent(ListRequest(TRUE))
  /\ isLoading' = TRUE
  /\ isSwitchLoading' = TRUE
  /\ UNCHANGED <<server, auth, lists, acceptMessages, seen>>

\* A fetchMessages that fills the lists only while nothing is shown yet.
fetchMessagesThenKeepsShown(req) ==
  /\ req.kind = "list" /\ req.stage = "ok"
  /\ messages' = IF messages = <<>> THEN req.body ELSE messages
  /\ filteredMessages' = IF messages = <<>> THEN req.body ELSE filteredMessages
  /\ toast' = IF req.refresh THEN Toast("default") ELSE toast
  /\ isLoading' = FALSE
  /\ isSwitchLoading' = FALSE
  /\ net' = Settled(req)
  /\ UNCHANGED <<server, auth, filter, acceptMessages, watch, submitResult,
                 peerResult, dirty, deletedLocal>>

\* fetchMessages after a successful response: try block and finally.
fetchMessagesThen(req) ==
  /\ req.kind = "list" /\ req.stage = "ok"
  /\ messages' = req.body
  /\ filteredMessages' = req.body
  /\ toast' = IF req.refresh THEN Toast("default") ELSE toast
  /\ isLoading' = FALSE
  /\ isSwitchLoading' = FALSE
  /\ net' = Settled(req)
  /\ UNCHANGED <<server, auth, filter, acceptMessages, watch, submitResult,
                 peerResult, dirty, deletedLocal>>

\* fetchMessages after a failed request: catch block and finally.
fetchMessagesCatch(req) ==
  /\ req.kind = "list" /\ req.stage = "fail"
  /\ toast' = Toast("destructive")
  /\ isLoading' = FALSE
  /\ isSwitchLoading' = FALSE
  /\ net' = Settled(req)
  /\ UNCHANGED <<server, auth, lists, acceptMessages, watch, submitResult,
                 peerResult, dirty, deletedLocal>>

\* fetchAcceptMessages after a successful response.
fetchAcceptMessagesThen(req) ==
  /\ req.kind = "getAccept" /\ req.stage = "ok"
  /\ acceptMessages' = FormValue(req.val)
  /\ isSwitchLoading' = FALSE
  /\ net' = Settled(req)
  /\ UNCHANGED <<server, auth, lists, isLoading, seen>>

\* fetchAcceptMessages after a failed request.
fetchAcceptMessagesCatch(req) ==
  /\ req.kind = "getAccept" /\ req.stage = "fail"
  /\ toast' = Toast("destructive")
  /\ isSwitchLoading' = FALSE
  /\ net' = Settled(req)
  /\ UNCHANGED <<server, auth, lists, acceptMessages, isLoading, watch,
                 submitResult, peerResult, dirty, deletedLocal>>

\* The switch (rendered with a session, disabled while isSwitchLoading):
\* handleSwitchChange up to its await posts !acceptMessages.
handleSwitchChange ==
  /\ Rendered
  /\ ~isSwitchLoading
  /\ Room(1)
  /\ net' = Sent([Idle EXCEPT !.kind = "setAccept", !.stage = "sent",
                              !.val = Negate(acceptMessages)])
  /\ UNCHANGED <<server, client, seen>>

\* A handleSwitchChange that also resets the displayed list on success.
handleSwitchChangeThenResetsList(req) ==
  /\ req.kind = "setAccept" /\ req.stage = "ok"
  /\ acceptMessages' = FormValue(req.val)
  /\ filteredMessages' = messages
  /\ toast' = Toast("default")
  /\ net' = Settled(req)
  /\ UNCHANGED <<server, auth, messages, filter, flags, watch, submitResult,
                 peerResult, dirty, deletedLocal>>

\* handleSwitchChange after a successful response: the acceptMessages it
\* negates is the one of the render the click happened in.
handleSwitchChangeThen(req) ==
  /\ req.kind = "setAccept" /\ req.stage = "ok"
  /\ acceptMessages' = FormValue(req.val)
  /\ toast' = Toast("default")
  /\ net' = Settled(req)
  /\ UNCHANGED <<server, auth, lists, flags, watch, submitResult,
                 peerResult, dirty, deletedLocal>>

\* A handleSwitchChange that flips the form value although the request
\* failed.
handleSwitchChangeCatchFlips(req) ==
  /\ req.kind = "setAccept" /\ req.stage = "fail"
  /\ acceptMessages' = FormValue(req.val)
  /\ toast' = Toast("destructive")
  /\ net' = Settled(req)
  /\ UNCHANGED <<server, auth, lists, flags, watch, submitResult,
                 peerResult, dirty, deletedLocal>>

\* handleSwitchChange after a failed request.
handleSwitchChangeCatch(req) ==
  /\ req.kind = "setAccept" /\ req.stage = "fail"
  /\ toast' = Toast("destructive")
  /\ net' = Settled(req)
  /\ UNCHANGED <<server, auth, lists, acceptMessages, flags, watch,
                 submitResult, peerResult, dirty, deletedLocal>>

\* A filter dropdown that narrows what is displayed instead of projecting
\* the full list.
handleFilterChangeNarrows(selectedFilter) ==
  /\ Rendered
  /\ filter' = selectedFilter
  /\ filteredMessages' = IF selectedFilter = "all" THEN filteredMessages
                         ELSE FilterPurpose(filteredMessages, selectedFilter)
  /\ UNCHANGED <<server, auth, messages, acceptMessages, flags, net, seen>>

\* The filter dropdown.
handleFilterChange(selectedFilter) ==
  /\ Rendered
  /\ filter' = selectedFilter
  /\ filteredMessages' = IF selectedFilter = "all" THEN messages
                         ELSE FilterPurpose(messages, selectedFilter)
  /\ UNCHANGED <<server, auth, messages, acceptMessages, flags, net, seen>>

\* A message card is asked to delete its message: the cards are rendered
\* for filteredMessages while isLoading is false.  The card sends the delete
\* and holds the onMessageDelete of its render, whose messages is snap.
MessageCardDelete(messageId) ==
  /\ Rendered
  /\ ~isLoading
  /\ messageId \in IdsOf(filteredMessages)
  /\ Room(1)
  /\ net' = Sent([Idle EXCEPT !.kind = "delete", !.stage = "sent",
                              !.id = messageId, !.snap = messages])
  /\ UNCHANGED <<server, client, seen>>

\* const updatedMessages = messages.filter(...)
updatedMessages(snapshot, messageId) == FilterNotId(snapshot, messageId)

\* The card calls onMessageDelete before or alongside the store's
\* confirmation (spec.md 4.4): handleDeleteMessage runs on the messages of
\* the render it was created in.
handleDeleteMessage(req) ==
  /\ req.kind = "delete" /\ ~req.applied
  /\ req.stage \in {"sent", "ok"}
  /\ messages' = updatedMessages(req.snap, req.id)
  /\ filteredMessages' = updatedMessages(req.snap, req.id)
  /\ net' = Answered(req, [req EXCEPT !.applied = TRUE, !.snap = <<>>])
  /\ deletedLocal' = Record("deleted", deletedLocal \cup {req.id}, deletedLocal)
  /\ UNCHANGED <<server, auth, filter, acceptMessages, flags, watch, toast,
                 submitResult, peerResult, dirty>>

\* The card's delete is over: confirmed and removed locally, or failed.
MessageCardSettle(req) ==
  /\ req.kind = "delete"
  /\ \/ req.stage = "ok" /\ req.applied
     \/ req.stage = "fail"
  /\ net' = Settled(req)
  /\ UNCHANGED <<server, client, seen>>

\* ----------------------------------------------------- specifications
\* Every operation of the owner, the submitters, the other user and the
\* service.
Next ==
  \/ \E k \in SubmitSlots, u \in SubmitTargets : SubmitRead(k, u)
  \/ \E k \in SubmitSlots, p \in SubmitPurposes : SubmitFinish(k, p)
  \/ \E req \in InFlight : ListServe(req)
  \/ \E req \in InFlight : GetAcceptanceServe(req)
  \/ \E req \in InFlight : SetAcceptanceServe(req)
  \/ \E req \in InFlight : DeleteServe(req)
  \/ \E req \in InFlight : StoreUnavailable(req)
  \/ \E i \in Ids : PeerDelete(i)
  \/ \E user \in {"none", Owner} : useSession(user)
  \/ useEffect
  \/ fetchMessages
  \/ \E req \in InFlight : fetchMessagesThen(req)
  \/ \E req \in InFlight : fetchMessagesCatch(req)
  \/ \E req \in InFlight : fetchAcceptMessagesThen(req)
  \/ \E req \in InFlight : fetchAcceptMessagesCatch(req)
  \/ handleSwitchChange
  \/ \E req \in InFlight : handleSwitchChangeThen(req)
  \/ \E req \in InFlight : handleSwitchChangeCatch(req)
  \/ \E f \in FilterOptions : handleFilterChange(f)
  \/ \E i \in Ids : MessageCardDelete(i)
  \/ \E req \in InFlight : handleDeleteMessage(req)
  \/ \E req \in InFlight : MessageCardSettle(req)

Spec == Init /\ [][Next]_vars

\* The inbox view: the owner refreshes, filters and deletes while messages
\* come in; the switch is left alone.
NextLists ==
  \/ \E k \in SubmitSlots, u \in SubmitTargets : SubmitRead(k, u)
  \/ \E k \in SubmitSlots, p \in SubmitPurposes : SubmitFinish(k, p)
  \/ \E req \in InFlight : ListServe(req)
  \/ \E req \in InFlight : GetAcceptanceServe(req)
  \/ \E req \in InFlight : DeleteServe(req)
  \/ \E req \in InFlight : StoreUnavailable(req)
  \/ useSession(Owner)
  \/ useEffect
  \/ fetchMessages
  \/ \E req \in InFlight : fetchMessagesThen(req)
  \/ \E req \in InFlight : fetchMessagesCatch(req)
  \/ \E req \in InFlight : fetchAcceptMessagesThen(req)
  \/ \E req \in InFlight : fetchAcceptMessagesCatch(req)
  \/ \E f \in FilterOptions : handleFilterChange(f)
  \/ \E i \in Ids : MessageCardDelete(i)
  \/ \E req \in InFlight : handleDeleteMessage(req)
  \/ \E req \in InFlight : MessageCardSettle(req)

SpecLists == InitLists /\ [][NextLists]_vars

\* The acceptance switch: the owner toggles, refreshes and filters while
\* messages come in; no message is deleted.
NextSwitch ==
  \/ \E k \in SubmitSlots, u \in SubmitTargets : SubmitRead(k, u)
  \/ \E k \in SubmitSlots, p \in SubmitPurposes : SubmitFinish(k, p)
  \/ \E req \in InFlight : ListServe(req)
  \/ \E req \in InFlight : GetAcceptanceServe(req)
  \/ \E req \in InFlight : SetAcceptanceServe(req)
  \/ \E req \in InFlight : StoreUnavailable(req)
  \/ useSession(Owner)
  \/ useEffect
  \/ fetchMessages
  \/ \E req \in InFlight : fetchMessagesThen(req)
  \/ \E req \in InFlight : fetchMessagesCatch(req)
  \/ \E req \in InFlight : fetchAcceptMessagesThen(req)
  \/ \E req \in InFlight : fetchAcceptMessagesCatch(req)
  \/ handleSwitchChange
  \/ \E req \in InFlight : handleSwitchChangeThen(req)
  \/ \E req \in InFlight : handleSwitchChangeCatch(req)
  \/ \E f \in FilterOptions : handleFilterChange(f)

SpecSwitch == InitSwitch /\ [][NextSwitch]_vars

\* The store: submitters, the owner and the other user act on it; the
\* owner's list is the one fetched on mount, and the store is available
\* throughout (a delete still fails when its message is gone).
NextStore ==
  \/ \E k \in SubmitSlots, u \in SubmitTargets : SubmitRead(k, u)
  \/ \E k \in SubmitSlots, p \in SubmitPurposes : SubmitFinish(k, p)
  \/ \E req \in InFlight : ListServe(req)
  \/ \E req \in InFlight : GetAcceptanceServe(req)
  \/ \E req \in InFlight : SetAcceptanceServe(req)
  \/ \E req \in InFlight : DeleteServe(req)
  \/ \E i \in Ids : PeerDelete(i)
  \/ useSession(Owner)
  \/ useEffect
  \/ \E req \in InFlight : fetchMessagesThen(req)
  \/ \E req \in InFlight : fetchAcceptMessagesThen(req)
  \/ handleSwitchChange
  \/ \E req \in InFlight : handleSwitchChangeThen(req)
  \/ \E f \in FilterOptions : handleFilterChange(f)
  \/ \E i \in Ids : MessageCardDelete(i)
  \/ \E req \in InFlight : handleDeleteMessage(req)
  \/ \E req \in InFlight : MessageCardSettle(req)

SpecStore == InitStore /\ [][NextStore]_vars

\* The session: it arrives and ends while the owner refreshes and toggles
\* and messages come in.
NextSession ==
  \/ \E k \in SubmitSlots, u \in SubmitTargets : SubmitRead(k, u)
  \/ \E k \in SubmitSlots, p \in SubmitPurposes : SubmitFinish(k, p)
  \/ \E req \in InFlight : ListServe(req)
  \/ \E req \in InFlight : GetAcceptanceServe(req)
  \/ \E req \in InFlight : SetAcceptanceServe(req)
  \/ \E user \in {"none", Owner} : useSession(user)
  \/ useEffect
  \/ fetchMessages
  \/ \E req \in InFlight : fetchMessagesThen(req)
  \/ \E req \in InFlight : fetchAcceptMessagesThen(req)
  \/ handleSwitchChange
  \/ \E req \in InFlight : handleSwitchChangeThen(req)

SpecSession == Init /\ [][NextSession]_vars

\* ------------------------------------------------------------ claims
\* The subsequence of seq, in the same order, whose purpose is the category
\* asked for, or all of seq for "all".
Projection(seq, category) ==
  IF category = "all" THEN seq
  ELSE SelectSeq(seq, LAMBDA msg : msg.purpose = category)

\* seq without the messages whose _id is messageId, the others in order.
Without(seq, messageId) == SelectSeq(seq, LAMBDA msg : msg._id # messageId)

\* C1: in every state the displayed list (filteredMessages) is the
\* projection of the last-fetched list (messages) on the selected filter.
C1_DisplayedIsProjection == filteredMessages = Projection(messages, filter)

\* C2: when a list retrieval that was issued after handleDeleteMessage(id)
\* completes successfully, the retrieved and displayed list does not
\* contain id.
C2_GoneAfterLocalDelete ==
  [][\A req \in InFlight :
       fetchMessagesThen(req) =>
         /\ req.delBefore \cap IdsOf(req.body) = {}
         /\ req.delBefore \cap IdsOf(messages') = {}
         /\ req.delBefore \cap IdsOf(filteredMessages') = {}]_vars

\* C2, amended: when a list retrieval that was issued after the store had
\* confirmed the delete of id completes successfully, the retrieved and
\* displayed list does not contain id.
C2_GoneAfterConfirmedDelete ==
  [][\A req \in InFlight :
       (req.kind = "list" /\ req.stage = "ok" /\ net' = Settled(req)) =>
         /\ req.goneBefore \cap IdsOf(req.body) = {}
         /\ req.goneBefore \cap IdsOf(messages') = {}
         /\ req.goneBefore \cap IdsOf(filteredMessages') = {}]_vars

\* A retrieval issued after the store confirmed a delete the owner made
\* through the dashboard has been served and is about to complete.
C2_Witness ==
  \E req \in InFlight :
    /\ req.kind = "list" /\ req.stage = "ok"
    /\ req.goneBefore # {} /\ req.goneBefore \subseteq req.delBefore
    /\ req.body # <<>>
    /\ IdsOf(messages) \cap req.goneBefore # {}

\* The steps that send a request of one of the kinds.
Sends(kinds) ==
  \E req \in BagToSet(net') :
    req.kind \in kinds /\ req.stage = "sent" /\ CopiesIn(req, net') > CopiesIn(req, net)

\* The steps in which the store answers req with resp.
Answers(req, resp) ==
  req.stage = "sent" /\ resp.stage \in {"ok", "fail"} /\ net' = Answered(req, resp)

\* C3: when a request of fetchMessages, fetchAcceptMessages or
\* handleSwitchChange fails, an error toast is raised, and neither sending
\* the request, nor its failure, nor the handler's catch changes messages,
\* filteredMessages, filter or the displayed acceptMessages.
C3_FailureKeepsState ==
  [][/\ Sends({"list", "getAccept", "setAccept"}) =>
          UNCHANGED <<messages, filteredMessages, filter, acceptMessages>>
     /\ \A req \in InFlight :
          req.kind \in {"list", "getAccept", "setAccept"} =>
            /\ (\E resp \in BagToSet(net') : Answers(req, resp) /\ resp.stage = "fail") =>
                 UNCHANGED <<messages, filteredMessages, filter, acceptMessages>>
            /\ (req.stage = "fail" /\ net' = Settled(req)) =>
                 /\ toast' = "destructive"
                 /\ UNCHANGED <<messages, filteredMessages, filter, acceptMessages>>
    ]_vars

\* A failed request has raised its toast over a filtered, non-empty inbox
\* with the switch on.
C3_Witness ==
  /\ toast = "destructive"
  /\ net = EmptyBag
  /\ messages # <<>>
  /\ filter # "all"
  /\ acceptMessages = "true"

\* C4: handleFilterChange sends no request, leaves messages unchanged and
\* shows the projection of messages on the category asked for, whatever was
\* shown before: the same category over the same messages gives the same
\* list.
C4_FilterIsProjection ==
  [][\A f \in FilterOptions :
       handleFilterChange(f) =>
         /\ net' = net
         /\ messages' = messages
         /\ filter' = f
         /\ filteredMessages' = Projection(messages, f)]_vars

\* feedback is selected again after another category, and shows a proper,
\* non-empty part of messages.
C4_Witness ==
  /\ filter = "feedback"
  /\ filteredMessages # <<>>
  /\ filteredMessages # messages
  /\ filteredMessages = Projection(messages, "feedback")

\* The steps of a set-acceptance request: sent, answered or settled.
SwitchStep ==
  \E req \in BagToSet(net) \cup BagToSet(net') :
    req.kind = "setAccept" /\ CopiesIn(req, net) # CopiesIn(req, net')

\* C5: no step of handleSwitchChange or of its request, failed or not,
\* changes messages, filteredMessages or filter, nor the store; it changes
\* the acceptance flag alone.
C5_SwitchTouchesOnlyFlag ==
  [][SwitchStep =>
       UNCHANGED <<store, nextId, subs, session, effectDue, messages, filteredMessages,
                   filter, isLoading, isSwitchLoading>>]_vars

\* The flag has been set to false and shown so, and the owner's messages
\* are all still stored and displayed.
C5_Witness ==
  /\ ~acceptingMessages[Owner]
  /\ acceptMessages = "false"
  /\ List(Owner) # <<>>
  /\ messages = List(Owner)
  /\ filteredMessages # <<>>

\* C6: once every request has completed, none having failed, and no message
\* has come in since the dashboard began to fetch, messages is the owner's
\* list in the store.
C6_Reconciled ==
  (Rendered /\ net = EmptyBag /\ ~dirty) => messages = List(Owner)

\* C7: a submit that read acceptingMessages = false creates no message and
\* returns accepted:false, and the store grows only by the message of a
\* submit that read true, owned by its target.
C7_SubmitObeysItsRead ==
  [][/\ \A k \in SubmitSlots :
          (subs[k].stage = "read" /\ ~subs[k].read /\ subs'[k].stage = "idle") =>
            /\ store' = store
            /\ submitResult' = "rejected"
     /\ Len(store') > Len(store) =>
          \E k \in SubmitSlots :
            /\ subs[k].stage = "read" /\ subs[k].read /\ subs'[k].stage = "idle"
            /\ Tail(store') = store
            /\ Head(store').owner = subs[k].target
            /\ submitResult' = "accepted"
    ]_vars

\* A submit was rejected on the false it had read, although the flag is
\* true again and the owner has messages.
C7_Witness ==
  /\ submitResult = "rejected"
  /\ acceptingMessages[Owner]
  /\ List(Owner) # <<>>

\* The steps of the delete request req.
DeleteStep(req) ==
  req.kind = "delete" /\ CopiesIn(req, net') < CopiesIn(req, net)

\* A delete of an id the store does not hold: not answered yet (the id
\* never comes back), or answered NotFound.
Missing(req) ==
  /\ req.kind = "delete"
  /\ \/ req.stage = "sent" /\ req.id \notin IdsOf(store)
     \/ req.stage = "fail" /\ req.err = "NotFound"

\* How the store answers a delete of an id it does not hold.
AnswersNotFound(req) ==
  \A resp \in BagToSet(net') :
    Answers(req, resp) =>
      /\ resp.stage = "fail"
      /\ resp.err \in {"NotFound", "StoreUnavailable"}
      /\ DeleteServe(req) => resp.err = "NotFound"
      /\ store' = store

\* C8: a delete of an id the store does not hold fails with NotFound, and no
\* step of it changes the store or the dashboard's lists.
C8_NotFoundKeepsLists ==
  [][\A req \in InFlight :
       (Missing(req) /\ DeleteStep(req)) =>
         /\ AnswersNotFound(req)
         /\ store' = store
         /\ UNCHANGED <<messages, filteredMessages>>]_vars

\* C8, amended: a delete of an id the store does not hold fails with
\* NotFound and leaves the store unchanged; the answer and its settling
\* leave the lists unchanged, and handleDeleteMessage, when the card calls
\* it, leaves the lists without the id.
C8_NotFoundKeepsStore ==
  [][\A req \in InFlight :
       (Missing(req) /\ DeleteStep(req)) =>
         /\ AnswersNotFound(req)
         /\ store' = store
         /\ IF req.applied = FALSE /\ \E resp \in BagToSet(net') : resp.applied /\ net' = Answered(req, resp)
            THEN req.id \notin IdsOf(messages') \cup IdsOf(filteredMessages')
            ELSE UNCHANGED <<messages, filteredMessages>>]_vars

\* The store has answered NotFound to a delete whose id the dashboard had
\* already removed from its lists.
C8_Witness ==
  \E req \in InFlight :
    /\ req.kind = "delete" /\ req.stage = "fail" /\ req.err = "NotFound"
    /\ req.applied
    /\ req.id \in GoneIds

OwnerOf(messageId) ==
  LET i == CHOOSE j \in 1..Len(store) : store[j]._id = messageId IN store[i].owner

\* C9: a message leaves the store only in the step that answers ok to a
\* delete of its id by its owner, the other messages staying as they are;
\* the other user's delete of a message that is not theirs ends Forbidden
\* and changes nothing.
C9_OnlyOwnerDeletes ==
  [][/\ \A i \in IdsOf(store) \ IdsOf(store') :
          /\ store' = Without(store, i)
          /\ \/ /\ OwnerOf(i) = Owner
                /\ \E req \in InFlight :
                     /\ req.kind = "delete" /\ req.id = i
                     /\ Answers(req, [req EXCEPT !.stage = "ok"])
             \/ /\ OwnerOf(i) = "B"
                /\ peerResult' = "ok"
                /\ net' = net
     /\ \A i \in IdsOf(store) : \E j \in 1..Len(store) :
          (store[j]._id = i /\ store[j].owner # "B" /\ PeerDelete(i)) =>
            (peerResult' = "Forbidden" /\ store' = store)
     /\ IdsOf(store) \subseteq IdsOf(store') => SubSeq(store', Len(store') - Len(store) + 1, Len(store')) = store
    ]_vars

\* The other user was refused the delete of a message of the owner, which
\* is still stored, after the owner had deleted another one.
C9_Witness ==
  /\ peerResult = "Forbidden"
  /\ List(Owner) # <<>>
  /\ GoneIds # {}

\* C10: handleDeleteMessage(id) leaves the dashboard's list as it was but
\* for the messages whose _id is id.
C10_RemovesExactly ==
  [][\A req \in InFlight :
       handleDeleteMessage(req) => messages' = Without(messages, req.id)]_vars

\* The number under "Total Messages Received": <CountUp to={filteredMessages.length}>.
TotalMessagesReceived == Len(filteredMessages)

\* C11: the count shown under "Total Messages Received" is the number of
\* messages in the last-fetched inbox (messages), whichever filter is selected.
C11_CountIsInboxSize ==
  Rendered => TotalMessagesReceived = Len(messages)

\* C12: the dashboard issues no list, get-acceptance or set-acceptance
\* request while there is no session user: every step that sends one is taken
\* with a session, and remains with it.
C12_NoRequestWithoutSession ==
  [][Sends({"list", "getAccept", "setAccept"}) =>
       (session = Owner /\ session' = Owner)]_vars

\* The session ended after messages had been fetched, the effect ran again
\* and returned, and nothing is in flight.
C12_Witness ==
  /\ session = "none"
  /\ ~effectDue
  /\ messages # <<>>
  /\ net = EmptyBag

\* The dashboard's get-acceptance and set-acceptance requests in flight.
FlagRequests == {req \in InFlight : req.kind \in {"getAccept", "setAccept"}}

\* C13: once every get-acceptance and set-acceptance request of the dashboard
\* has completed successfully, the acceptMessages value shown on the switch
\* is the acceptance flag the store holds for the owner.
C13_SwitchShowsStoredFlag ==
  (Rendered /\ FlagRequests = {}) =>
    acceptMessages = FormValue(acceptingMessages[Owner])

\* C14: while a get-acceptance or set-acceptance request of the dashboard is
\* in flight isSwitchLoading is true, so that the switch is disabled and no
\* second toggle is issued before that request has completed.
C14_SwitchBusyWhileInFlight ==
  FlagRequests # {} => isSwitchLoading

\* C15: deletes of distinct messages accumulate: when handleDeleteMessage
\* runs for b, the displayed list afterwards holds neither b nor any a that
\* handleDeleteMessage had already removed and that was still absent,
\* whichever render the two callbacks were created in.
C15_DeletesAccumulate ==
  [][\A req \in InFlight :
       handleDeleteMessage(req) =>
         /\ req.id \notin IdsOf(filteredMessages')
         /\ \A a \in deletedLocal \ IdsOf(messages) :
              a \notin IdsOf(filteredMessages')]_vars

\* The dashboard's list and get-acceptance requests in flight.
FetchRequests == {req \in InFlight : req.kind \in {"list", "getAccept"}}

\* C16: with no list or get-acceptance request in flight isLoading and
\* isSwitchLoading are both false, and isLoading is true while a list request
\* is in flight.
C16_LoadingFlagsTrackFetches ==
  /\ FetchRequests = {} => (~isLoading /\ ~isSwitchLoading)
  /\ (\E req \in InFlight : req.kind = "list") => isLoading
====
